---- MODULE Spec2Model ----
(***************************************************************************)
(* MSD radix sort for strings (src/MSD.py, class msd).                     *)
(*                                                                         *)
(* Python lists are mutable objects that are passed by reference, so the   *)
(* model keeps a heap of list objects and the sorter, the call frames and  *)
(* the caller hold addresses into it.  A string is a sequence of character *)
(* ordinals.  An item of a list is a string together with the position it  *)
(* had in the list the caller supplied (id); the code never reads id, it   *)
(* only tells apart duplicates of one string.                              *)
(* Python indexes from 0 and TLA+ from 1: index, idx_first and idx_last    *)
(* keep their Python values and 1 is added where a sequence is accessed.   *)
(***************************************************************************)
EXTENDS Integers, Sequences, FiniteSets, Bags, TLC

VARIABLES
    heap,       \* the list objects: heap[a] is the content of the list at address a
    items,      \* self.items: address of the sorter's working list
    max_index,  \* self.max_index
    stack,      \* the frames of the _msd calls in progress, innermost last
    result,     \* address of the list the last msd() call returned (0: none)
    outcome,    \* "ready" | "ValueError" | "running" | "returned" | "IndexError"
    supplied,   \* content of the caller's list when it was handed to the sorter
    origin      \* "init" | "set_items" | "fed_back": how the caller's list was handed over

vars == <<heap, items, max_index, stack, result, outcome, supplied, origin>>

----------------------------------------------------------------------------
(* Bounds of the model *)

MaxLen == 2        \* longest list handed to set_items
MaxStrLen == 2     \* longest string
MaxInitLen == 1    \* longest list handed to the constructor

(* size of count_list *)
possible_elements == 128

(* Character ordinals of the inputs: 'a' and 'b', and the first ordinal that *)
(* count_list has no entry for                                               *)
Chars == {97, 98}

BadChar == possible_elements

(* what an index expression that raises IndexError evaluates to *)
IndexError == -1

StringsUpTo(n) == UNION {[1..k -> Chars] : k \in 0..n}

(* the strings over Chars, and those that end in the ordinal past 7 bits *)
Strings ==
    StringsUpTo(MaxStrLen) \cup {Append(p, BadChar) : p \in StringsUpTo(MaxStrLen - 1)}

Lists(n) == UNION {[1..k -> Strings] : k \in 0..n}

Inputs == Lists(MaxLen)

InitInputs == Lists(MaxInitLen)

(* the caller's list: each string with the position it has in that list *)
Tag(strs) == [i \in 1..Len(strs) |-> [s |-> strs[i], id |-> i]]

Strs(list) == [i \in 1..Len(list) |-> list[i].s]

(* address of the list object the caller passes to __init__ / set_items *)
callerList == 1

Max(S) == CHOOSE m \in S : \A x \in S : x <= m

Min2(a, b) == IF a < b THEN a ELSE b

(* max(l) - 1 with l = [len(x) for x in items] *)
maxIndexOf(list) == Max({Len(list[i].s) : i \in 1..Len(list)}) - 1

----------------------------------------------------------------------------
(* _stableSort *)

(* Mutant: a string that is too short reads as if padded with NUL *)
charAtPadded(item, index) ==
    IF index < Len(item.s) THEN item.s[index + 1] ELSE 0

(* Mutant: an index past the end reads the last character *)
charAtClamped(item, index) ==
    IF index < Len(item.s) THEN item.s[index + 1]
    ELSE IF Len(item.s) = 0 THEN 0 ELSE item.s[Len(item.s)]

(* input_list[i][index]: the ordinal of the character, IndexError past the end *)
charAt(item, index) ==
    IF index < Len(item.s) THEN item.s[index + 1] ELSE IndexError

(* first loop: count_list[ord(input_list[i][index])] += 1 for i in range(0, n) *)
RECURSIVE countLoop(_, _, _, _)
countLoop(input_list, index, i, count_list) ==
    IF i >= Len(input_list)
    THEN [raised |-> FALSE, count_list |-> count_list]
    ELSE LET c == charAt(input_list[i + 1], index)
         IN  IF c = IndexError \/ c >= possible_elements
             THEN [raised |-> TRUE, count_list |-> count_list]
             ELSE countLoop(input_list, index, i + 1,
                            [count_list EXCEPT ![c] = @ + 1])

(* second loop: count_list[i] += count_list[i - 1] for i in range(1, 128). *)
(* cumulativeSum runs the iterations first..last in order: those up to the *)
(* middle, then the others on the table the former leave (bound through a  *)
(* one-element set, which makes TLC compute it once).                      *)
RECURSIVE cumulativeSum(_, _, _)
cumulativeSum(count_list, first, last) ==
    IF first > last
    THEN count_list
    ELSE IF first = last
         THEN [count_list EXCEPT ![first] = @ + count_list[first - 1]]
         ELSE LET mid == (first + last) \div 2
              IN  CHOOSE done \in {cumulativeSum(half, mid + 1, last) :
                                      half \in {cumulativeSum(count_list, first, mid)}} :
                      TRUE

(* the first two loops: the counts, then their cumulative sum *)
cumulativeCounts(input_list, index) ==
    CHOOSE summed \in
        {IF counted.raised
         THEN counted
         ELSE [raised |-> FALSE,
               count_list |-> cumulativeSum(counted.count_list, 1,
                                            possible_elements - 1)] :
         counted \in {countLoop(input_list, index, 0,
                                [c \in 0..(possible_elements - 1) |-> 0])}} : TRUE

(* Mutant: place, then decrement *)
RECURSIVE placeThenDecrement(_, _, _, _, _)
placeThenDecrement(input_list, index, i, count_list, out_list) ==
    IF i < 0
    THEN out_list
    ELSE LET element == charAt(input_list[i + 1], index)
             count == count_list[element]
         IN  placeThenDecrement(input_list, index, i - 1,
                                [count_list EXCEPT ![element] = count - 1],
                                [k \in 1..Len(out_list) |->
                                    IF k = count + 1 THEN input_list[i + 1]
                                    ELSE out_list[k]])

(* third loop: for i in range(n - 1, -1, -1): decrement, then place *)
RECURSIVE placeLoop(_, _, _, _, _)
placeLoop(input_list, index, i, count_list, out_list) ==
    IF i < 0
    THEN out_list
    ELSE LET element == charAt(input_list[i + 1], index)
             count == count_list[element] - 1
         IN  placeLoop(input_list, index, i - 1,
                       [count_list EXCEPT ![element] = count],
                       [out_list EXCEPT ![count + 1] = input_list[i + 1]])

(* out_list = [0] * n *)
blankList(n) == [k \in 1..n |-> [s |-> <<>>, id |-> 0]]

(* Mutant: the third loop runs from the front, for i in range(0, n) *)
RECURSIVE placeForward(_, _, _, _, _)
placeForward(input_list, index, i, count_list, out_list) ==
    IF i >= Len(input_list)
    THEN out_list
    ELSE LET element == charAt(input_list[i + 1], index)
             count == count_list[element] - 1
         IN  placeForward(input_list, index, i + 1,
                          [count_list EXCEPT ![element] = count],
                          [out_list EXCEPT ![count + 1] = input_list[i + 1]])

stableSortForward(input_list, index) ==
    LET n == Len(input_list)
    IN  CHOOSE sorted \in
            {IF counted.raised
             THEN [raised |-> TRUE, out_list |-> <<>>]
             ELSE [raised |-> FALSE,
                   out_list |-> placeForward(input_list, index, 0,
                                             counted.count_list, blankList(n))] :
             counted \in {cumulativeCounts(input_list, index)}} : TRUE

(* _stableSort; out_list stands for a raised IndexError when raised is set. *)
(* The table of the first two loops is bound through a one-element set,     *)
(* which makes TLC compute it once.                                         *)
stableSort(input_list, index) ==
    LET n == Len(input_list)
    IN  CHOOSE sorted \in
            {IF counted.raised
             THEN [raised |-> TRUE, out_list |-> <<>>]
             ELSE [raised |-> FALSE,
                   out_list |-> placeLoop(input_list, index, n - 1,
                                          counted.count_list, blankList(n))] :
             counted \in {cumulativeCounts(input_list, index)}} : TRUE

----------------------------------------------------------------------------
(* list slices *)

(* lst[first:last] *)
Slice(lst, first, last) == SubSeq(lst, first + 1, Min2(last, Len(lst)))

(* Mutant: the assignment keeps the element at last - 1 *)
SliceAssignKeepsLast(lst, first, last, new) ==
    SubSeq(lst, 1, first) \o new \o SubSeq(lst, Min2(last, Len(lst)), Len(lst))

(* lst[first:last] = new *)
SliceAssign(lst, first, last, new) ==
    SubSeq(lst, 1, first) \o new \o SubSeq(lst, Min2(last, Len(lst)) + 1, Len(lst))

----------------------------------------------------------------------------
(* State after construction: msd(items), items defaulting to [] *)

Init ==
    \E strs \in InitInputs :
        /\ heap = <<Tag(strs), <<>>>>
        /\ items = 2
        /\ max_index = IF Len(strs) > 0 THEN maxIndexOf(Tag(strs)) ELSE 0
        /\ stack = <<>>
        /\ result = 0
        /\ outcome = "ready"
        /\ supplied = Tag(strs)
        /\ origin = "init"

Idle == stack = <<>>

(* set_items(items), shared by the two ways the caller comes by a list *)
SetItemsTo(list, how) ==
    /\ Idle
    /\ heap' = <<list>>
    /\ items' = callerList
    /\ supplied' = list
    /\ origin' = how
    /\ result' = 0
    /\ stack' = <<>>
    /\ IF Len(list) = 0
       THEN max_index' = max_index /\ outcome' = "ValueError"
       ELSE max_index' = maxIndexOf(list) /\ outcome' = "ready"

(* The caller hands a list of its own to a sorter it has constructed.       *)
(* set_items overwrites items and max_index (max_index survives only the    *)
(* ValueError of an empty list, and the constructor leaves every value it   *)
(* can have), so the first hand-over reaches every state a later one would. *)
set_items ==
    /\ origin = "init"
    /\ outcome = "ready"
    /\ \E strs \in Inputs : SetItemsTo(Tag(strs), "set_items")

(* the list a msd() call returned is handed back through set_items *)
set_items_result ==
    /\ outcome = "returned"
    /\ SetItemsTo(Tag(Strs(heap[result])), "fed_back")

----------------------------------------------------------------------------
(* msd() and _msd *)

Frame(input_list, index) ==
    [input_list |-> input_list, index |-> index, sorted_list |-> 0,
     idx_first |-> 0, idx_last |-> 0, pc |-> "entry"]

Top == stack[Len(stack)]

Rest == SubSeq(stack, 1, Len(stack) - 1)

(* Mutant: the recursion stops one index early *)
exitConditionEarly(input_list, index) ==
    Len(input_list) < 2 \/ index >= max_index

(* Mutant: the recursion does not look at the index *)
exitConditionNoIndex(input_list, index) ==
    Len(input_list) < 2

(* the recursion exit conditions *)
exitCondition(input_list, index) ==
    Len(input_list) < 2 \/ index > max_index

(* Mutant: the pass sorts into its input list *)
outListRefInPlace(h, input_ref) == input_ref

(* address of the list that out_list = [0] * n creates *)
outListRef(h, input_ref) == Len(h) + 1

(* msd(): return self._msd(self.items, 0).  Lists that nothing refers to any *)
(* more (those of an earlier call) are dropped from the heap.                *)
msd ==
    /\ Idle
    /\ heap' = SubSeq(heap, 1, items)
    /\ stack' = <<Frame(items, 0)>>
    /\ outcome' = "running"
    /\ result' = 0
    /\ UNCHANGED <<items, max_index, supplied, origin>>

(* The innermost call returns the list at ref, h being the heap it leaves.  *)
(* The top-level call hands it to the caller of msd(); a recursive call     *)
(* hands it to the slice assignment of its caller, which then moves on to   *)
(* the next bucket or, after the last one, to its own return.               *)
Deliver(ref, h) ==
    IF Rest = <<>>
    THEN /\ stack' = <<>>
         /\ heap' = h
         /\ result' = ref
         /\ outcome' = "returned"
    ELSE LET caller == Rest[Len(Rest)]
             assigned == SliceAssign(h[caller.sorted_list], caller.idx_first,
                                     caller.idx_last, h[ref])
             resumed == IF caller.pc = "bucket"
                        THEN [caller EXCEPT !.idx_first = caller.idx_last,
                                            !.idx_last = caller.idx_last + 1,
                                            !.pc = "loop"]
                        ELSE [caller EXCEPT !.pc = "return"]
         IN  /\ heap' = [h EXCEPT ![caller.sorted_list] = assigned]
             /\ stack' = [Rest EXCEPT ![Len(Rest)] = resumed]
             /\ UNCHANGED <<result, outcome>>

(* if len(input_list) < 2 or index > self.max_index: return input_list *)
MsdExit ==
    /\ ~Idle
    /\ Top.pc = "entry"
    /\ exitCondition(heap[Top.input_list], Top.index)
    /\ Deliver(Top.input_list, heap)
    /\ UNCHANGED <<items, max_index, supplied, origin>>

(* sorted_list = self._stableSort(input_list, index); idx_first = 0; idx_last = 1 *)
MsdSort ==
    /\ ~Idle
    /\ Top.pc = "entry"
    /\ ~exitCondition(heap[Top.input_list], Top.index)
    /\ LET sorted == stableSort(heap[Top.input_list], Top.index)
           ref == outListRef(heap, Top.input_list)
       IN  /\ ~sorted.raised
           /\ heap' = [a \in 1..Max({Len(heap), ref}) |->
                          IF a = ref THEN sorted.out_list ELSE heap[a]]
           /\ stack' = [stack EXCEPT ![Len(stack)] =
                          [Top EXCEPT !.sorted_list = ref, !.idx_first = 0,
                                      !.idx_last = 1, !.pc = "loop"]]
    /\ UNCHANGED <<items, max_index, result, outcome, supplied, origin>>

(* _stableSort raises IndexError: no frame catches it, msd() raises it *)
MsdSortRaise ==
    /\ ~Idle
    /\ Top.pc = "entry"
    /\ ~exitCondition(heap[Top.input_list], Top.index)
    /\ stableSort(heap[Top.input_list], Top.index).raised
    /\ stack' = <<>>
    /\ outcome' = "IndexError"
    /\ UNCHANGED <<heap, items, max_index, result, supplied, origin>>

(* while idx_last < len(input_list): same character: idx_last += 1 *)
LoopSame ==
    /\ ~Idle
    /\ Top.pc = "loop"
    /\ Top.idx_last < Len(heap[Top.input_list])
    /\ LET sorted_list == heap[Top.sorted_list]
       IN  charAt(sorted_list[Top.idx_last + 1], Top.index)
             = charAt(sorted_list[Top.idx_first + 1], Top.index)
    /\ stack' = [stack EXCEPT ![Len(stack)] = [Top EXCEPT !.idx_last = @ + 1]]
    /\ UNCHANGED <<heap, items, max_index, result, outcome, supplied, origin>>

(* the call self._msd(sorted_list[idx_first:idx_last], index + 1): the slice *)
(* is a new list                                                             *)
Recurse(at) ==
    /\ heap' = Append(heap, Slice(heap[Top.sorted_list], Top.idx_first, Top.idx_last))
    /\ stack' = Append([stack EXCEPT ![Len(stack)] = [Top EXCEPT !.pc = at]],
                       Frame(Len(heap) + 1, Top.index + 1))
    /\ UNCHANGED <<items, max_index, result, outcome, supplied, origin>>

(* while idx_last < len(input_list): another character: sort the bucket *)
LoopBucket ==
    /\ ~Idle
    /\ Top.pc = "loop"
    /\ Top.idx_last < Len(heap[Top.input_list])
    /\ LET sorted_list == heap[Top.sorted_list]
       IN  charAt(sorted_list[Top.idx_last + 1], Top.index)
             # charAt(sorted_list[Top.idx_first + 1], Top.index)
    /\ Recurse("bucket")

(* after the loop: do the last sort before returning *)
LastBucket ==
    /\ ~Idle
    /\ Top.pc = "loop"
    /\ ~(Top.idx_last < Len(heap[Top.input_list]))
    /\ Recurse("last")

(* return sorted_list *)
MsdReturn ==
    /\ ~Idle
    /\ Top.pc = "return"
    /\ Deliver(Top.sorted_list, heap)
    /\ UNCHANGED <<items, max_index, supplied, origin>>

(* the steps of a msd() call in progress *)
Step ==
    \/ MsdExit
    \/ MsdSort
    \/ MsdSortRaise
    \/ LoopSame
    \/ LoopBucket
    \/ LastBucket
    \/ MsdReturn

Next ==
    \/ set_items
    \/ set_items_result
    \/ msd
    \/ Step

Spec == Init /\ [][Next]_vars

(* The interpreter runs a call in progress to its end: it is sequential code *)
(* with no suspension point.                                                  *)
FairSpec == Spec /\ WF_vars(Step)

----------------------------------------------------------------------------
(* The reference: list.sort() on strings, as the unit tester uses it *)

(* a <= b on Python strings: the first differing ordinal decides, a prefix *)
(* comes first                                                             *)
LexLE(a, b) ==
    \/ /\ Len(a) <= Len(b)
       /\ \A j \in 1..Len(a) : a[j] = b[j]
    \/ \E k \in 1..Min2(Len(a), Len(b)) :
          /\ \A j \in 1..(k - 1) : a[j] = b[j]
          /\ a[k] < b[k]

(* list.sort() is stable: x goes behind every item that is not greater *)
RECURSIVE insertSorted(_, _)
insertSorted(sorted, x) ==
    IF sorted = <<>>
    THEN <<x>>
    ELSE LET last == sorted[Len(sorted)]
         IN  IF LexLE(last.s, x.s)
             THEN Append(sorted, x)
             ELSE Append(insertSorted(SubSeq(sorted, 1, Len(sorted) - 1), x), last)

RECURSIVE refSorted(_)
refSorted(list) ==
    IF list = <<>>
    THEN <<>>
    ELSE insertSorted(refSorted(SubSeq(list, 1, Len(list) - 1)), list[Len(list)])

----------------------------------------------------------------------------
(* Vocabulary of the properties *)

Returned == outcome = "returned"

Raised == outcome = "IndexError"

(* the caller's list went through set_items *)
ViaSetItems == origin \in {"set_items", "fed_back"}

EqualLength(list) ==
    \A i, j \in 1..Len(list) : Len(list[i].s) = Len(list[j].s)

InRange(list) ==
    \A i \in 1..Len(list) : \A k \in 1..Len(list[i].s) :
        list[i].s[k] >= 0 /\ list[i].s[k] < possible_elements

Ordered(list) ==
    \A i \in 1..(Len(list) - 1) : LexLE(list[i].s, list[i + 1].s)

(* equal strings stand in the order they had in the caller's list *)
StableOrder(list) ==
    \A i, j \in 1..Len(list) :
        (i < j /\ list[i].s = list[j].s) => list[i].id < list[j].id

Range(list) == {list[i] : i \in 1..Len(list)}

BagOf(list) ==
    [x \in Range(list) |-> Cardinality({i \in 1..Len(list) : list[i] = x})]

(* the frames that have run their counting-sort pass *)
Sorting == {k \in 1..Len(stack) : stack[k].sorted_list # 0}

(* a counting-sort pass is about to run in the innermost call *)
PassDue ==
    /\ ~Idle
    /\ Top.pc = "entry"
    /\ Len(heap[Top.input_list]) >= 2
    /\ Top.index <= max_index

(* an item the pass at index cannot take *)
BadItem(list, index) ==
    \E i \in 1..Len(list) :
        \/ Len(list[i].s) <= index
        \/ list[i].s[index + 1] < 0
        \/ list[i].s[index + 1] >= possible_elements

----------------------------------------------------------------------------
(* C1: for a non-empty list of equal-length strings with ordinals in        *)
(* [0,128), set_items followed by msd() returns the list a trusted          *)
(* lexicographic sort returns, element by element, and every adjacent pair  *)
(* (a, b) of the output has a <= b.                                         *)
C1_EqualsReferenceSort ==
    (/\ ViaSetItems
     /\ Returned
     /\ supplied # <<>>
     /\ EqualLength(supplied)
     /\ InRange(supplied))
    => /\ Strs(heap[result]) = Strs(refSorted(supplied))
       /\ Ordered(heap[result])

(* a list of two-character strings with a common first character came back *)
(* reordered                                                               *)
C1_Witness ==
    /\ origin = "set_items"
    /\ Returned
    /\ Len(supplied) >= 2
    /\ EqualLength(supplied)
    /\ InRange(supplied)
    /\ Len(supplied[1].s) >= 2
    /\ supplied[1].s[1] = supplied[2].s[1]
    /\ Strs(heap[result]) # Strs(supplied)

(* C2: stability.  For an equal-length list, equal strings stand in the     *)
(* order of the input in the list msd() returns and in every list of the    *)
(* call, whatever the depth of the pass that made it.                       *)
C2_Stable ==
    (ViaSetItems /\ EqualLength(supplied) /\ outcome \in {"running", "returned"})
    => \A a \in 1..Len(heap) : StableOrder(heap[a])

(* duplicates of a two-character string went through both passes *)
C2_Witness ==
    /\ ViaSetItems
    /\ Returned
    /\ Len(supplied) >= 2
    /\ Len(supplied[1].s) >= 2
    /\ supplied[1].s = supplied[2].s
    /\ result # callerList
    /\ Len(heap) >= 3

(* C3: permutation.  The list msd() returns holds exactly the items that    *)
(* were supplied to set_items, and so does the sorted list of every call in *)
(* progress with respect to its input, slice replacements included.         *)
C3_Permutation ==
    /\ (ViaSetItems /\ Returned) => BagOf(heap[result]) = BagOf(supplied)
    /\ \A k \in Sorting :
          BagOf(heap[stack[k].sorted_list]) = BagOf(heap[stack[k].input_list])

(* a run of two items has been replaced by its sorted version, which differs *)
C3_Witness ==
    /\ ViaSetItems
    /\ ~Idle
    /\ Top.pc = "return"
    /\ Len(stack) = 1
    /\ Len(heap) >= 4
    /\ Len(heap[3]) >= 2
    /\ heap[4] # heap[3]

(* C4: a counting-sort pass on a list that holds an item no longer than    *)
(* index, or an item whose ordinal at index is outside [0,128), fails with *)
(* IndexError, and the error ends the whole msd() call, which returns no   *)
(* list.                                                                    *)
C4_BadItemAborts ==
    [][(PassDue /\ BadItem(heap[Top.input_list], Top.index))
       => (stack' = <<>> /\ outcome' = "IndexError" /\ result' = 0)]_vars

(* a pass of a recursive call, two frames deep, has raised *)
C4_Witness ==
    /\ Raised
    /\ Idle
    /\ result = 0
    /\ Len(heap) >= 3
    /\ BadItem(heap[3], 1)

(* C5: a collection of size 0 or 1 handed to set_items comes back from      *)
(* msd() unchanged, and neither call raises.                                *)
C5_EmptyAndSingleton ==
    (origin = "set_items" /\ Len(supplied) <= 1)
    => /\ outcome \notin {"ValueError", "IndexError"}
       /\ Returned => heap[result] = supplied

(* C6: after the constructor or set_items was given a non-empty list, the   *)
(* working set is that list and max_index is the greatest length minus 1,   *)
(* so that the msd() call that follows returns exactly those items.         *)
C6_SuppliedIsWorkingSet ==
    (origin \in {"init", "set_items"} /\ supplied # <<>>)
    => /\ outcome = "ready"
          => (heap[items] = supplied /\ max_index = maxIndexOf(supplied))
       /\ Returned => BagOf(heap[result]) = BagOf(supplied)

(* the caller's list holds what it held when it was handed over, and the    *)
(* sorted_list of a call is no other list of the sorter, the caller or a    *)
(* call in progress                                                         *)
C7_FreshLists ==
    /\ heap[callerList] = supplied
    /\ \A k \in Sorting :
          /\ stack[k].sorted_list \notin {callerList, items}
          /\ \A j \in 1..Len(stack) :
                /\ stack[k].sorted_list # stack[j].input_list
                /\ j # k => stack[k].sorted_list # stack[j].sorted_list

(* C7: msd() leaves the caller's list as it was, whether it returns or      *)
(* raises; every pass sorts into a list of its own, which is neither its    *)
(* input nor a list of another call nor the caller's list, and the run      *)
(* replacements go there: a step of a call changes no existing list but the *)
(* sorted_list of the caller of the call that returns.                      *)
C7_CallerListUntouched ==
    /\ []C7_FreshLists
    /\ [][\A a \in 1..Len(heap) :
             (~Idle /\ a <= Len(heap') /\ heap'[a] # heap[a])
             => (Len(stack) >= 2 /\ a = stack[Len(stack) - 1].sorted_list)]_vars

(* a call reordered the items, another one raised: the caller's list is intact *)
C7_Witness ==
    /\ ViaSetItems
    /\ Len(supplied) >= 2
    /\ \/ Returned /\ heap[result] # heap[callerList]
       \/ Raised /\ Len(heap) >= 3

(* C8: idempotence.  msd() on an equal-length list that is already sorted,  *)
(* such as the output of an earlier call handed back through set_items,     *)
(* returns it element for element, duplicates at their positions.           *)
C8_Idempotent ==
    (ViaSetItems /\ Returned /\ EqualLength(supplied) /\ Ordered(supplied))
    => heap[result] = supplied

(* the output of a call, with duplicates, was handed back and sorted again *)
C8_Witness ==
    /\ origin = "fed_back"
    /\ Returned
    /\ Len(supplied) >= 2
    /\ EqualLength(supplied)
    /\ Len(supplied[1].s) >= 1
    /\ supplied[1].s = supplied[2].s
    /\ result # callerList

(* the frame at depth k has index k - 1 and sorts the run its caller is at; *)
(* no frame above max_index has sorted; the depth is at most max_index + 2 *)
C9_Frames ==
    /\ Len(stack) <= max_index + 2
    /\ \A k \in 1..Len(stack) :
          /\ stack[k].index = k - 1
          /\ k \in Sorting => stack[k].index <= max_index
          /\ k > 1 =>
                LET caller == stack[k - 1]
                IN  /\ caller.pc \in {"bucket", "last"}
                    /\ heap[stack[k].input_list]
                         = Slice(heap[caller.sorted_list], caller.idx_first,
                                 caller.idx_last)
                    /\ Len(heap[stack[k].input_list]) <= Len(heap[caller.input_list])

(* one iteration of the scan of frame k: the frame is scanning before and  *)
(* after, with or without a recursive call in between                      *)
C9_ScanAdvances ==
    \A k \in 1..Len(stack) :
        (/\ k <= Len(stack')
         /\ stack[k].pc \in {"loop", "bucket"}
         /\ stack'[k].pc = "loop"
         /\ stack'[k] # stack[k])
        => /\ stack'[k].idx_last = stack[k].idx_last + 1
           /\ stack'[k].idx_last <= Len(heap[stack[k].input_list])

(* a call entered above max_index returns at once and sorts nothing *)
C9_NoPassAboveMaxIndex ==
    (~Idle /\ Top.pc = "entry" /\ Top.index > max_index)
    => (Len(stack') < Len(stack) /\ outcome' # "IndexError")

(* What the call of frame f can still do, counted in steps: a call on n     *)
(* items with d indexes left takes at most (n + 1) * Levels(d) steps.       *)
Levels(d) == IF d <= 0 THEN 1 ELSE 3 * 2^d - 2

StepsLeft(f) ==
    LET n == Len(heap[f.input_list])
        d == max_index + 1 - f.index
        scan(first, last) ==
            (n - last) + (n - first) + 2 * (n - first) * Levels(d - 1) + 1
    IN  CASE f.pc = "entry" -> (n + 1) * Levels(d)
          [] f.pc = "loop" -> scan(f.idx_first, f.idx_last)
          [] f.pc = "bucket" -> scan(f.idx_last, f.idx_last + 1)
          [] OTHER -> 1

RECURSIVE SumSteps(_)
SumSteps(k) == IF k = 0 THEN 0 ELSE StepsLeft(stack[k]) + SumSteps(k - 1)

Measure == SumSteps(Len(stack))

(* a call in progress always has a next step, which returns, raises or     *)
(* brings the call nearer to its end                                        *)
C9_NotStuck ==
    ~Idle => /\ outcome = "running"
             /\ Top.pc \in {"entry", "loop", "return"}
             /\ Top.pc = "loop" => /\ Top.idx_first < Top.idx_last
                                   /\ Top.idx_last <= Len(heap[Top.input_list])
             /\ \A k \in 1..Len(stack) : StepsLeft(stack[k]) >= 1

(* C9: every msd() call ends, by returning or by raising.  A recursive call *)
(* has the index of its caller plus one and sorts a contiguous run of its   *)
(* caller's list, no longer than that list; the scan moves idx_last on at   *)
(* every iteration; no pass runs at an index above max_index; the recursion *)
(* is never deeper than max_index + 2.  Every step of a call lowers the     *)
(* number of steps the call can still take, so no call runs forever.        *)
C9_Terminates ==
    /\ [](C9_Frames /\ C9_NotStuck)
    /\ [][/\ C9_ScanAdvances
          /\ C9_NoPassAboveMaxIndex
          /\ ~Idle => /\ Measure' < Measure
                      /\ Idle' <=> (outcome' # "running")]_vars

(* under the fairness of a sequential interpreter the call ends for good *)
C9_EventuallyEnds ==
    (outcome = "running") ~> (Idle /\ outcome \in {"returned", "IndexError"})

(* the recursion is max_index + 2 = 3 frames deep *)
C9_Witness ==
    /\ max_index >= 1
    /\ Len(stack) = max_index + 2
    /\ Top.index = max_index + 1

(* C10: for strings of differing lengths, with ordinals in [0,128), msd()   *)
(* either raises IndexError or returns the list in the stable, standard     *)
(* lexicographic order; it returns no list that is out of order.            *)
C10_RaggedRaisesOrSorts ==
    (/\ ViaSetItems
     /\ ~EqualLength(supplied)
     /\ InRange(supplied)
     /\ Idle
     /\ outcome \notin {"ready"})
    => \/ Raised /\ result = 0
       \/ /\ Returned
          /\ heap[result] = refSorted(supplied)
          /\ Ordered(heap[result])

(* strings of differing lengths came back in another order than they went in *)
C10_Witness ==
    /\ ViaSetItems
    /\ ~EqualLength(supplied)
    /\ InRange(supplied)
    /\ Returned
    /\ heap[result] # supplied

(* strings of differing lengths made a pass raise *)
C10_WitnessRaise ==
    /\ ViaSetItems
    /\ ~EqualLength(supplied)
    /\ InRange(supplied)
    /\ Raised

====
